---- MODULE Spec2Model ----
(***************************************************************************)
(* The JNI bridge of local-whisper (whisper_jni.cpp): whisperInit,         *)
(* whisperTranscribe and whisperFree, as a state machine.                  *)
(*                                                                         *)
(* A native call is a sequence of steps of one thread.  The steps are cut  *)
(* at the calls into the inference engine, the only places where a call    *)
(* touches state shared with other calls; the JNI borrows and releases     *)
(* between two engine calls touch only objects of the call itself and run  *)
(* inside the step of the engine call they surround.  Every engine call    *)
(* and every borrow and release is appended, in program order, to the      *)
(* call's event log.                                                       *)
(*                                                                         *)
(* The engine (whisper.h) is an external library: its results are chosen   *)
(* nondeterministically, and a call on a context that is not live, or one  *)
(* that races with an inference run on the same context, is undefined      *)
(* behaviour: the process crashes or the call returns any value.           *)
(***************************************************************************)
EXTENDS Integers, Sequences, FiniteSets, TLC

\* ----------------------------------------------------------------- bounds

\* Contexts the engine can construct before it reports resource exhaustion.
MaxCtx == 2
\* Segments one inference run can produce.
MaxSegs == 2
\* Native calls the callers make in one behaviour.
MaxCalls == 4

\* ------------------------------------------------------------ input domains

Threads == {1, 2}

\* Calls issued one after another are the same calls whichever thread makes
\* them (the bridge keeps no per-thread state): one thread issues them.
SeqThreads == {1}

Ctx == 1 .. MaxCtx

\* A model file the engine accepts, and a path with no model behind it.
ValidPath == "model.bin"
Paths == {ValidPath, "missing.bin"}

\* Audio buffers (jfloatArray): the empty one and a non-empty one.
SampleArrays == {<< >>, <<0>>}

Languages == {"en", "auto"}

\* The inputs of the calls of two concurrent threads.
ConcArrays == {<<0>>}
ConcLanguages == {"en"}

\* Segment texts as the engine holds them: UTF-8 bytes, here "a" and the
\* two-byte "e with acute accent"; NewStringUTF takes modified UTF-8, which
\* they are.
SegTexts == {<<97>>, <<195, 169>>}

RECURSIVE SeqsUpTo(_, _)
SeqsUpTo(S, n) ==
    IF n = 0 THEN {<< >>}
    ELSE LET shorter == SeqsUpTo(S, n - 1)
         IN  shorter \cup {Append(s, x) : s \in {r \in shorter : Len(r) = n - 1}, x \in S}

\* The segment lists an inference run can leave in a context.
SegLists == SeqsUpTo(SegTexts, MaxSegs)

\* whisper_full's status codes: 0 is success.
Statuses == {-1, 0, 1}

\* ------------------------------------------------------------------ handles

\* A handle is the address of a context (reinterpret_cast keeps the bits):
\* the engine's k-th context lives at address 4096 * k, nullptr is address 0.
AddrOf(c) == 4096 * c

\* The context at an address (0 when the engine never put one there).
CtxAt(ptr) ==
    IF ptr > 0 /\ ptr % 4096 = 0 /\ (ptr \div 4096) \in Ctx THEN ptr \div 4096 ELSE 0

\* A C string: the bytes of a text and the terminating NUL.
CStr(bytes) == Append(bytes, 0)

\* The bytes of a C string, up to its terminating NUL.
RECURSIVE UpToNul(_)
UpToNul(buf) ==
    IF buf = << >> \/ Head(buf) = 0 THEN << >> ELSE <<Head(buf)>> \o UpToNul(Tail(buf))

\* Modified UTF-8 to UTF-16 code units: one-, two- and three-byte sequences;
\* a byte that starts none of them decodes to U+FFFD.
RECURSIVE DecodeMUTF8(_)
DecodeMUTF8(b) ==
    IF b = << >> THEN << >>
    ELSE IF b[1] < 128 THEN <<b[1]>> \o DecodeMUTF8(Tail(b))
    ELSE IF b[1] >= 192 /\ b[1] < 224 /\ Len(b) >= 2
         THEN <<(b[1] - 192) * 64 + (b[2] - 128)>> \o DecodeMUTF8(SubSeq(b, 3, Len(b)))
    ELSE IF b[1] >= 224 /\ b[1] < 240 /\ Len(b) >= 3
         THEN <<(b[1] - 224) * 4096 + (b[2] - 128) * 64 + (b[3] - 128)>>
                  \o DecodeMUTF8(SubSeq(b, 4, Len(b)))
    ELSE <<65533>> \o DecodeMUTF8(Tail(b))

\* env->NewStringUTF(utf): the Java string (UTF-16 code units) of a C string.
NewStringUTF(utf) == DecodeMUTF8(UpToNul(utf))

\* -------------------------------------------------------------------- state

VARIABLES
    frame,      \* per thread: the native call in progress, its arguments and locals
    created,    \* engine: how many contexts were ever constructed
    live,       \* engine: the contexts constructed and not destroyed
    destroyed,  \* engine: per context, how often whisper_free destroyed it
    run,        \* engine: per context, the last inference run and its segments
    held,       \* caller: the non-zero handle values it holds
    released,   \* caller: the held handles it has passed to whisperFree
    prev,       \* caller: the last whisperTranscribe call that returned, as long
                \*         as its calls have been one after another
    ncalls,     \* native calls started so far
    overlap,    \* history: some call started while another was in progress
    deadCall,   \* history: an engine call was made on a context that is not live
    races,      \* history: the kinds of race that happened
    misuse,     \* history: how the caller broke the contract of a handle
    crashed     \* the process died of undefined behaviour

vars == <<frame, created, live, destroyed, run, held, released, prev, ncalls,
          overlap, deadCall, races, misuse, crashed>>

\* The frame of a thread that is not inside a native call.
IdleFrame ==
    [pc |-> "idle", model_path |-> "", context_ptr |-> 0, samples |-> << >>,
     language |-> "", result |-> 0, n_segments |-> 0, i |-> 0, text |-> << >>,
     retHandle |-> 0, retText |-> << >>, log |-> << >>]

\* A context no inference has run on: whisper_full_n_segments is 0.
FreshRun == [fresh |-> TRUE, samples |-> << >>, language |-> "", status |-> 0, segs |-> << >>]

NoPrev == [valid |-> FALSE, h |-> 0, samples |-> << >>, language |-> "", ret |-> << >>]

Init ==
    /\ frame = [t \in Threads |-> IdleFrame]
    /\ created = 0
    /\ live = {}
    /\ destroyed = [c \in Ctx |-> 0]
    /\ run = [c \in Ctx |-> FreshRun]
    /\ held = {}
    /\ released = {}
    /\ prev = NoPrev
    /\ ncalls = 0
    /\ overlap = FALSE
    /\ deadCall = FALSE
    /\ races = {}
    /\ misuse = {}
    /\ crashed = FALSE

\* ------------------------------------------------------------------- engine

\* The events of a call's log: <<name, argument>>.
Ev(name, arg) == <<name, arg>>

IsLive(ptr) == CtxAt(ptr) \in live

\* Thread u is inside whisper_full on the context at ptr.
InFull(u, ptr) == frame[u].pc = "t_in_full" /\ frame[u].context_ptr = ptr

\* Another thread's inference is running on the context thread t is about to use.
Racing(t, ptr) == \E u \in Threads \ {t} : InFull(u, ptr)

\* An engine call of thread t on ptr has defined behaviour.
Defined(t, ptr) == IsLive(ptr) /\ ~Racing(t, ptr)

\* whisper_init_from_file_with_params: nullptr, or a new context when the
\* file is a model and the engine has resources left.  A failed construction
\* leaves nothing allocated.
WhisperInitResults(path) ==
    {0} \cup (IF path = ValidPath /\ created < MaxCtx THEN {AddrOf(created + 1)} ELSE {})

\* What an inference run can produce: success with any segments, or a failure status.
AnyOutcome ==
    {[status |-> 0, segs |-> S] : S \in SegLists}
        \cup {[status |-> st, segs |-> << >>] : st \in Statuses \ {0}}

\* whisper_full: decoding is deterministic, so a run with the input of the
\* context's previous run repeats its outcome; a run that is undefined
\* behaviour returns anything.
WhisperFullOutcomes(t, ptr, params, audio_data, n_samples) ==
    IF /\ Defined(t, ptr)
       /\ ~run[CtxAt(ptr)].fresh
       /\ run[CtxAt(ptr)].samples = SubSeq(audio_data, 1, n_samples)
       /\ run[CtxAt(ptr)].language = params.language
    THEN {[status |-> run[CtxAt(ptr)].status, segs |-> run[CtxAt(ptr)].segs]}
    ELSE AnyOutcome

\* whisper_full_n_segments: the segments of the last successful run; what a
\* failed run left behind is unspecified.
NSegmentsResults(t, ptr) ==
    IF Defined(t, ptr) /\ run[CtxAt(ptr)].status = 0
    THEN {Len(run[CtxAt(ptr)].segs)}
    ELSE 0 .. MaxSegs

\* Reading segment k of the context at ptr is a defined read.
DefinedRead(t, ptr, k) ==
    Defined(t, ptr) /\ run[CtxAt(ptr)].status = 0 /\ k < Len(run[CtxAt(ptr)].segs)

\* whisper_full_get_segment_text(ctx, k), k counted from 0: a C string.
SegmentTextResults(t, ptr, k) ==
    IF DefinedRead(t, ptr, k)
    THEN {CStr(run[CtxAt(ptr)].segs[k + 1])}
    ELSE {CStr(x) : x \in SegTexts}

\* ----------------------------------------------------------------- whisperInit

\* Mutant: the handle is cut to its low bits.
InitReturnTruncated(ctx) == IF ctx = 0 THEN 0 ELSE ctx % 4096

\* Mutant: a failed construction is reported as -1.
InitReturnMinusOne(ctx) == IF ctx = 0 THEN -1 ELSE ctx

\* Lines 28-34: nullptr becomes the zero handle, a context its address.
InitReturn(ctx) == IF ctx = 0 THEN 0 ELSE ctx

\* Lines 18-26, in program order: the path is borrowed, the engine constructs
\* (ctx is what it returned), the path is released.
InitEvents(ctx) ==
    << Ev("GetStringUTFChars(model_path)", 0),
       Ev("whisper_init_from_file_with_params", ctx),
       Ev("ReleaseStringUTFChars(model_path)", 0) >>

\* The engine's state with the context at ctx constructed (unchanged for nullptr).
I_Run(t) ==
    /\ ~crashed
    /\ frame[t].pc = "i_called"
    /\ \E ctx \in WhisperInitResults(frame[t].model_path) :
          /\ created' = IF ctx = 0 THEN created ELSE created + 1
          /\ live' = IF ctx = 0 THEN live ELSE live \cup {CtxAt(ctx)}
          /\ frame' = [frame EXCEPT ![t] =
                          [@ EXCEPT !.pc = "i_return",
                                    !.retHandle = InitReturn(ctx),
                                    !.log = @ \o InitEvents(ctx)]]
    /\ UNCHANGED <<destroyed, run, held, released, prev, ncalls, overlap, deadCall,
                   races, misuse, crashed>>

\* ----------------------------------------------------------- whisperTranscribe

\* Mutant: the zero-handle check is missing.
ZeroHandleNever(context_ptr) == FALSE

\* Line 45: the zero handle short-circuits.
ZeroHandle(context_ptr) == context_ptr = 0

\* Lines 62-71: the fixed decoding policy, with the caller's language.
FullParams(lang) ==
    [strategy |-> "WHISPER_SAMPLING_GREEDY", print_progress |-> FALSE,
     print_special |-> FALSE, print_realtime |-> FALSE, print_timestamps |-> FALSE,
     translate |-> FALSE, single_segment |-> FALSE, no_timestamps |-> TRUE,
     language |-> lang, n_threads |-> 4]

\* Lines 53-74, up to the call of whisper_full: both borrows, then the call.
BeginEvents(ctx) ==
    << Ev("GetFloatArrayElements(samples)", 0),
       Ev("GetStringUTFChars(language)", 0),
       Ev("whisper_full", ctx) >>

\* Mutant: the failure path returns before the releases.
AfterFullEventsLeak(result) ==
    IF result # 0
    THEN << Ev("whisper_full returned", result) >>
    ELSE << Ev("whisper_full returned", result),
            Ev("ReleaseFloatArrayElements(samples)", 0),
            Ev("ReleaseStringUTFChars(language)", 0) >>

\* Lines 74-77: whisper_full has returned result; both borrows are released,
\* whatever the result.
AfterFullEvents(result) ==
    << Ev("whisper_full returned", result),
       Ev("ReleaseFloatArrayElements(samples)", 0),
       Ev("ReleaseStringUTFChars(language)", 0) >>

\* Mutant: only a negative status is a failure.
RunFailedNegative(result) == result < 0

\* Mutant: the status is ignored.
RunFailedNever(result) == FALSE

\* Line 79: any non-zero status is a failure.
RunFailed(result) == result # 0

\* Mutant: a failed run frees the context.
LiveAfterFullCleanup(ptr, result) == IF result # 0 THEN live \ {CtxAt(ptr)} ELSE live

\* Lines 74-95: whisperTranscribe destroys no context, whatever the status.
LiveAfterFull(ptr, result) == live

\* Mutant: a space is put before each segment.
AppendWithSpace(text, segment_text) == text \o <<32>> \o UpToNul(segment_text)

\* Line 90: text += segment_text appends the C string up to its NUL.
AppendSegment(text, segment_text) == text \o UpToNul(segment_text)

\* Line 88: the loop runs while i < n_segments.
LoopCond(i, n_segments) == i < n_segments

\* Lines 45-74: the zero-handle check, the borrows and the call of whisper_full.
T_Begin(t) ==
    /\ ~crashed
    /\ frame[t].pc = "t_called"
    /\ LET f == frame[t]
           ctx == f.context_ptr
       IN  IF ZeroHandle(f.context_ptr)
           THEN /\ frame' = [frame EXCEPT ![t] =
                                [f EXCEPT !.pc = "t_return",
                                          !.retText = NewStringUTF(CStr(<< >>))]]
                /\ UNCHANGED <<deadCall, races, crashed>>
           ELSE /\ deadCall' = (deadCall \/ ~IsLive(ctx))
                /\ races' = races \cup
                       (IF Racing(t, ctx) THEN {"ConcurrentInference"} ELSE {})
                /\ \/ /\ frame' = [frame EXCEPT ![t] =
                                      [f EXCEPT !.pc = "t_in_full",
                                                !.log = @ \o BeginEvents(ctx)]]
                      /\ UNCHANGED crashed
                   \/ /\ ~Defined(t, ctx)
                      /\ crashed' = TRUE
                      /\ UNCHANGED frame
    /\ UNCHANGED <<created, live, destroyed, run, held, released, prev, ncalls, overlap,
                   misuse>>

\* Lines 74-82: whisper_full returns, the borrows are released, a failed run
\* returns the empty string.
T_FullReturn(t) ==
    /\ ~crashed
    /\ frame[t].pc = "t_in_full"
    /\ LET f == frame[t]
           ctx == f.context_ptr
           n_samples == Len(f.samples)
       IN  \E o \in WhisperFullOutcomes(t, ctx, FullParams(f.language), f.samples, n_samples) :
             /\ deadCall' = (deadCall \/ ~IsLive(ctx))
             /\ \/ /\ run' = IF IsLive(ctx)
                             THEN [run EXCEPT ![CtxAt(ctx)] =
                                      [fresh |-> FALSE, samples |-> f.samples,
                                       language |-> f.language,
                                       status |-> o.status, segs |-> o.segs]]
                             ELSE run
                   /\ live' = LiveAfterFull(ctx, o.status)
                   /\ frame' = [frame EXCEPT ![t] =
                         [f EXCEPT !.result = o.status,
                                   !.log = @ \o AfterFullEvents(o.status),
                                   !.pc = IF RunFailed(o.status) THEN "t_return" ELSE "t_nseg",
                                   !.retText = NewStringUTF(CStr(<< >>))]]
                   /\ UNCHANGED crashed
                \/ /\ ~Defined(t, ctx)
                   /\ crashed' = TRUE
                   /\ UNCHANGED <<frame, run, live>>
    /\ UNCHANGED <<created, destroyed, held, released, prev, ncalls, overlap, races,
                   misuse>>

\* Lines 85-86: the empty text and the segment count.
T_NSegments(t) ==
    /\ ~crashed
    /\ frame[t].pc = "t_nseg"
    /\ LET f == frame[t]
           ctx == f.context_ptr
       IN  /\ deadCall' = (deadCall \/ ~IsLive(ctx))
           /\ \/ /\ \E n \in NSegmentsResults(t, ctx) :
                       frame' = [frame EXCEPT ![t] =
                           [f EXCEPT !.pc = "t_loop", !.text = << >>, !.i = 0,
                                     !.n_segments = n,
                                     !.log = Append(@, Ev("whisper_full_n_segments", ctx))]]
                 /\ UNCHANGED crashed
              \/ /\ ~Defined(t, ctx)
                 /\ crashed' = TRUE
                 /\ UNCHANGED frame
    /\ UNCHANGED <<created, live, destroyed, run, held, released, prev, ncalls, overlap,
                   races, misuse>>

\* Lines 88-95: one turn of the loop reads segment i and appends it; after
\* the last turn the text is returned.
T_Loop(t) ==
    /\ ~crashed
    /\ frame[t].pc = "t_loop"
    /\ LET f == frame[t]
           ctx == f.context_ptr
       IN  IF LoopCond(f.i, f.n_segments)
           THEN /\ deadCall' = (deadCall \/ ~IsLive(ctx))
                /\ \/ /\ \E segment_text \in SegmentTextResults(t, ctx, f.i) :
                            frame' = [frame EXCEPT ![t] =
                                [f EXCEPT !.text = AppendSegment(f.text, segment_text),
                                          !.i = f.i + 1,
                                          !.log = Append(@,
                                              Ev("whisper_full_get_segment_text", f.i))]]
                      /\ UNCHANGED crashed
                   \/ /\ ~DefinedRead(t, ctx, f.i)
                      /\ crashed' = TRUE
                      /\ UNCHANGED frame
           ELSE /\ frame' = [frame EXCEPT ![t] =
                                [f EXCEPT !.pc = "t_return",
                                          !.retText = NewStringUTF(CStr(f.text))]]
                /\ UNCHANGED <<deadCall, crashed>>
    /\ UNCHANGED <<created, live, destroyed, run, held, released, prev, ncalls, overlap,
                   races, misuse>>

\* ----------------------------------------------------------------- whisperFree

\* Mutant: the handle is passed to the engine unchecked.
FreeGuardAlways(context_ptr) == TRUE

\* Line 104: only a non-zero handle is passed to the engine.
FreeGuard(context_ptr) == context_ptr # 0

\* Lines 104-108: whisper_free on a non-zero handle.  whisper_free(nullptr)
\* does nothing; a second whisper_free of a context is undefined behaviour.
F_Run(t) ==
    /\ ~crashed
    /\ frame[t].pc = "f_called"
    /\ LET f == frame[t]
           ctx == f.context_ptr
           c == CtxAt(ctx)
           midTranscribe ==
               \E u \in Threads \ {t} :
                   /\ frame[u].context_ptr = ctx
                   /\ \/ frame[u].pc = "t_nseg"
                      \/ frame[u].pc = "t_loop" /\ frame[u].i < frame[u].n_segments
       IN  IF FreeGuard(ctx)
           THEN /\ deadCall' = (deadCall \/ ~IsLive(ctx))
                /\ races' = races \cup
                       (IF IsLive(ctx) /\ midTranscribe THEN {"FreeDuringTranscribe"} ELSE {})
                /\ \/ /\ live' = live \ {c}
                      /\ destroyed' = IF c \in Ctx
                                      THEN [destroyed EXCEPT ![c] = @ + 1]
                                      ELSE destroyed
                      /\ run' = IF c \in live THEN [run EXCEPT ![c] = FreshRun] ELSE run
                      /\ frame' = [frame EXCEPT ![t] =
                            [f EXCEPT !.pc = "f_return",
                                      !.log = Append(@, Ev("whisper_free", ctx))]]
                      /\ UNCHANGED crashed
                   \/ /\ ctx # 0 /\ ~IsLive(ctx)
                      /\ crashed' = TRUE
                      /\ UNCHANGED <<frame, live, destroyed, run>>
           ELSE /\ frame' = [frame EXCEPT ![t] = [f EXCEPT !.pc = "f_return"]]
                /\ UNCHANGED <<live, destroyed, run, deadCall, races, crashed>>
    /\ UNCHANGED <<created, held, released, prev, ncalls, overlap, misuse>>

\* ---------------------------------------------------------------------- caller

\* The handles the caller may pass to whisperTranscribe and whisperFree: zero,
\* or one it obtained from whisperInit and has not passed to whisperFree.
Usable == {0} \cup (held \ released)

\* Some other thread is inside a native call.
OthersBusy(t) == \E u \in Threads \ {t} : frame[u].pc # "idle"

Enter(t, f) ==
    /\ ~crashed
    /\ frame[t].pc = "idle"
    /\ ncalls < MaxCalls
    /\ ncalls' = ncalls + 1
    /\ overlap' = (overlap \/ OthersBusy(t))
    /\ frame' = [frame EXCEPT ![t] = f]

CallInit(t) ==
    \E model_path \in Paths :
        /\ Enter(t, [IdleFrame EXCEPT !.pc = "i_called", !.model_path = model_path])
        /\ UNCHANGED <<created, live, destroyed, run, held, released, prev, deadCall,
                       races, misuse, crashed>>

\* The caller picks the handle among handles.
CallTranscribe(t, handles, arrays, langs) ==
    \E context_ptr \in handles, samples \in arrays, language \in langs :
        /\ Enter(t, [IdleFrame EXCEPT !.pc = "t_called", !.context_ptr = context_ptr,
                                      !.samples = samples, !.language = language])
        /\ misuse' = misuse \cup
               (IF context_ptr \in released THEN {"UseAfterFree"} ELSE {})
        /\ UNCHANGED <<created, live, destroyed, run, held, released, prev, deadCall,
                       races, crashed>>

CallFree(t, handles) ==
    \E context_ptr \in handles :
        /\ Enter(t, [IdleFrame EXCEPT !.pc = "f_called", !.context_ptr = context_ptr])
        /\ misuse' = misuse \cup
               (IF context_ptr \in released THEN {"DoubleFree"} ELSE {})
        /\ released' = released \cup ({context_ptr} \ {0})
        /\ prev' = IF prev.valid /\ prev.h = context_ptr THEN NoPrev ELSE prev
        /\ UNCHANGED <<created, live, destroyed, run, held, deadCall, races, crashed>>

\* The native call returns to the caller, which keeps a non-zero handle it got
\* from whisperInit.  The argument of whisperFree was passed by value: the
\* caller's copy of the handle is what it was.
Return(t) ==
    /\ ~crashed
    /\ frame[t].pc \in {"i_return", "t_return", "f_return"}
    /\ held' = IF frame[t].pc = "i_return" /\ frame[t].retHandle # 0
               THEN held \cup {frame[t].retHandle}
               ELSE held
    /\ prev' = IF overlap THEN NoPrev
               ELSE IF frame[t].pc = "t_return"
               THEN [valid |-> TRUE, h |-> frame[t].context_ptr,
                     samples |-> frame[t].samples, language |-> frame[t].language,
                     ret |-> frame[t].retText]
               ELSE prev
    /\ frame' = [frame EXCEPT ![t] = IdleFrame]
    /\ UNCHANGED <<created, live, destroyed, run, released, ncalls, overlap, deadCall,
                   races, misuse, crashed>>

\* The caller forgets a handle it has released, once whisperFree has returned.
Discard ==
    \E h \in released :
        /\ ~crashed
        /\ \A u \in Threads : frame[u].pc = "idle" \/ frame[u].context_ptr # h
        /\ held' = held \ {h}
        /\ released' = released \ {h}
        /\ UNCHANGED <<frame, created, live, destroyed, run, prev, ncalls, overlap,
                       deadCall, races, misuse, crashed>>

\* -------------------------------------------------------------- specifications

Call(t, handles, arrays, langs) ==
    \/ CallInit(t)
    \/ CallTranscribe(t, handles, arrays, langs)
    \/ CallFree(t, handles)

Step(t) ==
    \/ I_Run(t)
    \/ T_Begin(t)
    \/ T_FullReturn(t)
    \/ T_NSegments(t)
    \/ T_Loop(t)
    \/ F_Run(t)
    \/ Return(t)

\* The callers keep the contract: they issue the native calls strictly one
\* after another and pass only usable handles.
Next ==
    \/ \E t \in SeqThreads : ~OthersBusy(t) /\ Call(t, Usable, SampleArrays, Languages)
    \/ \E t \in SeqThreads : Step(t)
    \/ Discard

Spec == Init /\ [][Next]_vars

\* Nothing is assumed of the callers: two threads call without waiting for
\* each other, with any handle the caller holds, released or not.
NextConc ==
    \/ \E t \in Threads : Call(t, held, ConcArrays, ConcLanguages)
    \/ \E t \in Threads : Step(t)
    \/ Discard

SpecConc == Init /\ [][NextConc]_vars

\* ---------------------------------------------------------------------- claims

\* What the claims read off a call's event log.
Positions(log, name) == {k \in DOMAIN log : log[k][1] = name}

Count(log, name) == Cardinality(Positions(log, name))

Only(log, name) == SelectSeq(log, LAMBDA e : e[1] = name)

\* The Java string of one segment text.
TextOf(segment) == DecodeMUTF8(segment)

\* S1 followed by S2 .. followed by Sn, as Java strings.
RECURSIVE Concat(_)
Concat(segments) ==
    IF segments = << >> THEN << >> ELSE TextOf(Head(segments)) \o Concat(Tail(segments))

InTranscribe(t) == frame[t].pc \in {"t_called", "t_in_full", "t_nseg", "t_loop", "t_return"}

\* C1: whisperTranscribe with context_ptr = 0, whatever the samples and the
\* language, returns the empty string, makes no engine call and acquires no
\* borrow: its event log stays empty from the call to the return.
C1_ZeroHandleShortCircuit ==
    \A t \in Threads :
        InTranscribe(t) /\ frame[t].context_ptr = 0 =>
            /\ frame[t].log = << >>
            /\ frame[t].pc \in {"t_called", "t_return"}
            /\ frame[t].pc = "t_return" => frame[t].retText = << >>

C1_Witness ==
    \E t \in Threads :
        /\ frame[t].pc = "t_return"
        /\ frame[t].context_ptr = 0
        /\ frame[t].samples # << >>
        /\ frame[t].language = "auto"
        /\ live # {}

\* C2: the step of whisperInit returns a non-zero handle exactly when the
\* engine constructed a context (then the handle is that context's address
\* and the context is live), and the zero handle exactly when it did not;
\* after a failed whisperInit the engine's contexts are what they were.
C2_InitHandleIffConstructed ==
    [][\A t \in Threads :
          frame[t].pc = "i_called" /\ frame'[t].pc = "i_return" =>
              LET ctx == frame'[t].log[2][2]
                  h == frame'[t].retHandle
              IN  /\ frame'[t].log[2][1] = "whisper_init_from_file_with_params"
                  /\ h # 0 <=> ctx # 0
                  /\ h # 0 => /\ h = ctx
                              /\ CtxAt(h) \in live' \ live
                  /\ h = 0 => /\ live' = live
                              /\ created' = created
                              /\ destroyed' = destroyed
                              /\ run' = run]_vars

C2_Witness ==
    \E t \in Threads :
        /\ frame[t].pc = "i_return"
        /\ frame[t].model_path = ValidPath
        /\ frame[t].retHandle = 0
        /\ live # {}

\* C3: when whisperTranscribe returns for a live handle after an engine run
\* of status 0 that produced segments S1..Sn, the returned text is S1 S2 ..
\* Sn with nothing between or around them, the segment count was read once,
\* and the segment reads are those of the indices 0, 1, .., n-1 in this order.
C3_ConcatenationOfSegments ==
    \A t \in Threads :
        /\ frame[t].pc = "t_return"
        /\ frame[t].context_ptr # 0
        /\ frame[t].result = 0
        => LET S == run[CtxAt(frame[t].context_ptr)].segs
               reads == Only(frame[t].log, "whisper_full_get_segment_text")
           IN  /\ frame[t].retText = Concat(S)
               /\ Count(frame[t].log, "whisper_full_n_segments") = 1
               /\ Len(reads) = Len(S)
               /\ \A k \in DOMAIN reads : reads[k][2] = k - 1

C3_Witness ==
    \E t \in Threads :
        /\ frame[t].pc = "t_return"
        /\ frame[t].context_ptr # 0
        /\ frame[t].result = 0
        /\ LET S == run[CtxAt(frame[t].context_ptr)].segs
           IN  Len(S) = 2 /\ S[1] # S[2]

\* C4: when the engine run of a whisperTranscribe on a live handle returns a
\* non-zero status, the call returns the empty string and asks the context
\* neither for its segment count nor for a segment.
C4_FailureReturnsEmpty ==
    \A t \in Threads :
        InTranscribe(t) /\ frame[t].result # 0 =>
            /\ frame[t].pc = "t_return"
            /\ frame[t].retText = << >>
            /\ Count(frame[t].log, "whisper_full_n_segments") = 0
            /\ Count(frame[t].log, "whisper_full_get_segment_text") = 0

\* The run fails on a context that holds the segments of an earlier run.
C4_Witness ==
    \E t \in Threads :
        /\ frame[t].pc = "t_return"
        /\ frame[t].result = 1
        /\ IsLive(frame[t].context_ptr)
        /\ prev.valid /\ prev.h = frame[t].context_ptr /\ prev.ret # << >>

\* The borrow acquired by acquire is released by release, once, and only
\* after the engine call that reads it has returned (event use).
ReleasedOnce(log, acquire, release, use) ==
    /\ Count(log, acquire) <= 1
    /\ Count(log, release) = Count(log, acquire)
    /\ \A a \in Positions(log, acquire) :
           \E u \in Positions(log, use), r \in Positions(log, release) : a < u /\ u < r

\* C5: when whisperTranscribe or whisperInit returns, by the zero-handle
\* short-circuit, after an engine failure or after a success, every borrow it
\* acquired (sample elements, language, model path) has been released exactly
\* once, after the return of the engine call that reads it; a call that
\* reached the engine had acquired its borrows.
C5_BorrowsReleased ==
    \A t \in Threads :
        frame[t].pc \in {"t_return", "i_return"} =>
            LET log == frame[t].log
            IN  /\ ReleasedOnce(log, "GetFloatArrayElements(samples)",
                                "ReleaseFloatArrayElements(samples)", "whisper_full returned")
                /\ ReleasedOnce(log, "GetStringUTFChars(language)",
                                "ReleaseStringUTFChars(language)", "whisper_full returned")
                /\ ReleasedOnce(log, "GetStringUTFChars(model_path)",
                                "ReleaseStringUTFChars(model_path)",
                                "whisper_init_from_file_with_params")
                /\ Count(log, "whisper_full") = Count(log, "GetFloatArrayElements(samples)")
                /\ Count(log, "whisper_full") = Count(log, "GetStringUTFChars(language)")
                /\ frame[t].pc = "i_return" => Count(log, "GetStringUTFChars(model_path)") = 1

C5_Witness ==
    \E t \in Threads :
        /\ frame[t].pc = "t_return"
        /\ frame[t].result = -1
        /\ Count(frame[t].log, "ReleaseFloatArrayElements(samples)") = 1
        /\ Count(frame[t].log, "ReleaseStringUTFChars(language)") = 1

\* C6: the step of whisperFree with handle 0 makes no engine call and leaves
\* the engine as it was; with a non-zero handle it makes one engine call,
\* whisper_free of that handle, after which the context is not live and has
\* been destroyed exactly once.
C6_FreeOnceOrNoOp ==
    [][\A t \in Threads :
          frame[t].pc = "f_called" /\ frame'[t].pc = "f_return" =>
              LET h == frame[t].context_ptr
              IN  IF h = 0
                  THEN /\ frame'[t].log = << >>
                       /\ UNCHANGED <<created, live, destroyed, run, held, released>>
                  ELSE /\ frame'[t].log = << Ev("whisper_free", h) >>
                       /\ live' = live \ {CtxAt(h)}
                       /\ destroyed' = [destroyed EXCEPT ![CtxAt(h)] = 1]
                       /\ created' = created]_vars

C6_Witness ==
    \E t \in Threads :
        /\ frame[t].pc = "f_return"
        /\ frame[t].context_ptr # 0
        /\ destroyed[CtxAt(frame[t].context_ptr)] = 1
        /\ ~IsLive(frame[t].context_ptr)
        /\ live # {}

\* C7 as stated: every handle value the caller holds is zero or refers to a
\* context that was initialized and has not been released.
C7_HeldHandleIsLive == \A h \in held : h = 0 \/ IsLive(h)

\* C7, amended: every handle value the caller holds is zero or the address of
\* a context that whisperInit constructed, and that context is live unless
\* the caller has passed the handle to whisperFree.
C7_HeldHandleLiveUntilFreed ==
    \A h \in held :
        h = 0 \/ (CtxAt(h) \in 1 .. created /\ (IsLive(h) \/ h \in released))

\* whisperFree has returned and the caller still holds the handle.
C7_Witness ==
    /\ \A t \in Threads : frame[t].pc = "idle"
    /\ \E h \in held : h \in released /\ ~IsLive(h)
    /\ \E h \in held : IsLive(h)

Lifecycle(c) ==
    IF c > created THEN "UNINITIALIZED" ELSE IF c \in live THEN "READY" ELSE "FREED"

\* C8: a context's lifecycle state changes only from UNINITIALIZED to READY,
\* in the step of a whisperInit that returns its handle, and from READY to
\* FREED, in the step of a whisperFree of its handle; a whisperInit that
\* returns 0 and every step of a whisperTranscribe, failed or not, leave every
\* context's lifecycle state, and the handles the caller holds, unchanged.
C8_LifecycleFrame ==
    [][/\ \A c \in Ctx :
             Lifecycle(c)' # Lifecycle(c) =>
                 \/ /\ Lifecycle(c) = "UNINITIALIZED"
                    /\ Lifecycle(c)' = "READY"
                    /\ \E t \in Threads :
                           /\ frame[t].pc = "i_called"
                           /\ frame'[t].pc = "i_return"
                           /\ frame'[t].retHandle = AddrOf(c)
                 \/ /\ Lifecycle(c) = "READY"
                    /\ Lifecycle(c)' = "FREED"
                    /\ \E t \in Threads :
                           /\ frame[t].pc = "f_called"
                           /\ frame'[t].pc = "f_return"
                           /\ frame[t].context_ptr = AddrOf(c)
       /\ \A t \in Threads :
             InTranscribe(t) /\ frame'[t] # frame[t] /\ frame'[t].pc # "idle" =>
                 UNCHANGED <<created, live, destroyed, held, released>>]_vars

\* A second whisperTranscribe on a READY context has failed, and the context
\* is still READY.
C8_Witness ==
    \E t \in Threads :
        /\ frame[t].pc = "t_return"
        /\ frame[t].result # 0
        /\ Lifecycle(CtxAt(frame[t].context_ptr)) = "READY"
        /\ prev.valid /\ prev.h = frame[t].context_ptr

\* C9: a whisperTranscribe that returns right after a whisperTranscribe with
\* the same live handle, samples and language (no other call on the handle
\* between them) returns the text the first one returned.
C9_RepeatedTranscribe ==
    \A t \in Threads :
        /\ frame[t].pc = "t_return"
        /\ prev.valid
        /\ prev.h = frame[t].context_ptr
        /\ prev.samples = frame[t].samples
        /\ prev.language = frame[t].language
        => frame[t].retText = prev.ret

C9_Witness ==
    \E t \in Threads :
        /\ frame[t].pc = "t_return"
        /\ prev.valid
        /\ prev.h = frame[t].context_ptr
        /\ prev.samples = frame[t].samples
        /\ prev.language = frame[t].language
        /\ IsLive(frame[t].context_ptr)
        /\ Len(run[CtxAt(frame[t].context_ptr)].segs) = 2
        /\ frame[t].retText # << >>

\* C10 as stated: as long as the callers have issued their calls strictly one
\* after another and have passed no handle to whisperFree twice, no engine
\* call (inference, segment count, segment read, destroy) has been made on a
\* context that is not live, and no call has raced with another.
C10_SequentialAndFreedOnceIsSafe ==
    (deadCall \/ races # {}) => (overlap \/ "DoubleFree" \in misuse)

\* C10, amended: as long as the callers have issued their calls strictly one
\* after another, have passed no handle to whisperFree twice and have passed
\* no handle to whisperTranscribe after passing it to whisperFree, no engine
\* call has been made on a context that is not live; and a race of two calls
\* on one context happens only when calls overlap.
C10_SafetyRestsOnTheCaller ==
    /\ deadCall => (overlap \/ misuse # {})
    /\ races # {} => overlap

\* Nothing in the bridge keeps two calls apart: in one run, a whisperFree has
\* destroyed a context while a whisperTranscribe of the handle was between
\* its inference and its segment reads, and two whisperTranscribe calls have
\* been inside whisper_full on one context at once.
C10_Witness == races = {"ConcurrentInference", "FreeDuringTranscribe"}

====
